---- MODULE Spec2Model ----
(***************************************************************************)
(* rlox: scan -> parse -> evaluate.                                        *)
(*                                                                         *)
(* A character is a TLA+ string; a Rust String / Vec<char> is a sequence   *)
(* of characters.  EAcute stands for one Unicode scalar that takes two     *)
(* bytes in UTF-8.  An f64 is a sign, a class and a reduced fraction:      *)
(* signed zeros, infinities and NaN are kept; rounding of the mantissa is  *)
(* not (the literals of the model are short).                              *)
(* A Rust panic (index out of range, panic!, todo!) is the outcome         *)
(* "Panic" of the operation it happens in.                                 *)
(***************************************************************************)
EXTENDS Integers, Sequences, FiniteSets, TLC

VARIABLES source, scanner, new_tokens, diag, tokens, r, result, out, pc,
          evaluated

\* evaluated is the history of the calls of evaluate: the tree each was given
\* and what it returned
vars ==
  <<source, scanner, new_tokens, diag, tokens, r, result, out, pc, evaluated>>

-----------------------------------------------------------------------------
(* Characters *)

DQ == "\""
NL == "\n"
CR == "\r"
TAB == "\t"
SP == " "
NUL == "NUL"
EAcute == "U+00E9"

Digits == {"0", "1", "2", "3", "4", "5", "6", "7", "8", "9"}

Letters ==
  {"a", "b", "c", "d", "e", "f", "g", "h", "i", "j", "k", "l", "m", "n", "o",
   "p", "q", "r", "s", "t", "u", "v", "w", "x", "y", "z",
   "A", "B", "C", "D", "E", "F", "G", "H", "I", "J", "K", "L", "M", "N", "O",
   "P", "Q", "R", "S", "T", "U", "V", "W", "X", "Y", "Z"}

is_ascii_digit(c) == c \in Digits

is_alpha(c) == c \in Letters \/ c = "_"

is_alphanumeric(c) == is_alpha(c) \/ is_ascii_digit(c)

\* char::len_utf8, as String::len counts it
len_utf8(c) == IF c = EAcute THEN 2 ELSE 1

RECURSIVE byte_len(_)
byte_len(s) == IF s = <<>> THEN 0 ELSE len_utf8(Head(s)) + byte_len(Tail(s))

-----------------------------------------------------------------------------
(* f64 *)

RECURSIVE Gcd(_, _)
Gcd(a, b) == IF b = 0 THEN a ELSE Gcd(b, a % b)

Fin(neg, n, d) ==
  [cls |-> "fin", neg |-> neg, n |-> n \div Gcd(n, d), d |-> d \div Gcd(n, d)]

Inf(neg) == [cls |-> "inf", neg |-> neg, n |-> 1, d |-> 1]

NaN == [cls |-> "nan", neg |-> FALSE, n |-> 0, d |-> 1]

Zero == Fin(FALSE, 0, 1)

IsZero(a) == a.cls = "fin" /\ a.n = 0

\* the signed numerator of a over the denominator a.d
SNum(a) == IF a.neg THEN 0 - a.n ELSE a.n

Abs(i) == IF i < 0 THEN 0 - i ELSE i

f64_add(a, b) ==
  IF a.cls = "nan" \/ b.cls = "nan" THEN NaN
  ELSE IF a.cls = "inf" /\ b.cls = "inf"
       THEN IF a.neg = b.neg THEN a ELSE NaN
  ELSE IF a.cls = "inf" THEN a
  ELSE IF b.cls = "inf" THEN b
  ELSE LET s == SNum(a) * b.d + SNum(b) * a.d
       IN  IF s = 0 THEN Fin(a.neg /\ b.neg, 0, 1)
           ELSE Fin(s < 0, Abs(s), a.d * b.d)

f64_neg(a) == IF a.cls = "nan" THEN NaN ELSE [a EXCEPT !.neg = ~a.neg]

f64_sub(a, b) == f64_add(a, f64_neg(b))

f64_mul(a, b) ==
  IF a.cls = "nan" \/ b.cls = "nan" THEN NaN
  ELSE IF a.cls = "inf" \/ b.cls = "inf"
       THEN IF IsZero(a) \/ IsZero(b) THEN NaN ELSE Inf(a.neg # b.neg)
  ELSE Fin(a.neg # b.neg, a.n * b.n, a.d * b.d)

f64_div(a, b) ==
  IF a.cls = "nan" \/ b.cls = "nan" THEN NaN
  ELSE IF a.cls = "inf"
       THEN IF b.cls = "inf" THEN NaN ELSE Inf(a.neg # b.neg)
  ELSE IF b.cls = "inf" THEN Fin(a.neg # b.neg, 0, 1)
  ELSE IF IsZero(b)
       THEN IF IsZero(a) THEN NaN ELSE Inf(a.neg # b.neg)
  ELSE Fin(a.neg # b.neg, a.n * b.d, a.d * b.n)

f64_lt(a, b) ==
  IF a.cls = "nan" \/ b.cls = "nan" THEN FALSE
  ELSE IF a.cls = "inf" THEN a.neg /\ ~(b.cls = "inf" /\ b.neg)
  ELSE IF b.cls = "inf" THEN ~b.neg
  ELSE SNum(a) * b.d < SNum(b) * a.d

f64_eq(a, b) ==
  IF a.cls = "nan" \/ b.cls = "nan" THEN FALSE
  ELSE IF a.cls = "inf" \/ b.cls = "inf" THEN a.cls = b.cls /\ a.neg = b.neg
  ELSE SNum(a) * b.d = SNum(b) * a.d

f64_le(a, b) == f64_lt(a, b) \/ f64_eq(a, b)

f64_gt(a, b) == f64_lt(b, a)

f64_ge(a, b) == f64_le(b, a)

DigitVal(c) ==
  CASE c = "0" -> 0 [] c = "1" -> 1 [] c = "2" -> 2 [] c = "3" -> 3
    [] c = "4" -> 4 [] c = "5" -> 5 [] c = "6" -> 6 [] c = "7" -> 7
    [] c = "8" -> 8 [] c = "9" -> 9

\* str::parse::<f64> on digits [ "." digits ]: the digits read as an integer
\* over ten to the number of digits after the point
RECURSIVE parse_digits(_, _, _, _)
parse_digits(text, n, d, frac) ==
  IF text = <<>> THEN Fin(FALSE, n, d)
  ELSE IF Head(text) = "." THEN parse_digits(Tail(text), n, d, TRUE)
  ELSE parse_digits(Tail(text), 10 * n + DigitVal(Head(text)),
                    IF frac THEN 10 * d ELSE d, frac)

\* str::parse::<f64> stopping at the "."
parse_f64_integer(text) ==
  parse_digits(SubSeq(text, 1,
                      (CHOOSE k \in 1..(Len(text) + 1) :
                         /\ k = Len(text) + 1 \/ text[k] = "."
                         /\ \A j \in 1..(k - 1) : text[j] # ".") - 1),
               0, 1, FALSE)

parse_f64(text) == parse_digits(text, 0, 1, FALSE)

-----------------------------------------------------------------------------
(* Tokens *)

Token(tok_type, lexeme, line, bool_literal, float_literal, string_literal) ==
  [tok_type |-> tok_type, lexeme |-> lexeme, line |-> line,
   bool_literal |-> bool_literal, float_literal |-> float_literal,
   string_literal |-> string_literal]

\* Option<Token>: None carries a placeholder that is never read
NoToken == Token("-", <<>>, 0, FALSE, Zero, <<>>)

Some(t) == [some |-> TRUE, v |-> t]

None == [some |-> FALSE, v |-> NoToken]

reserved ==
  {<<<<"a", "n", "d">>, "And">>,
   <<<<"c", "l", "a", "s", "s">>, "Class">>,
   <<<<"e", "l", "s", "e">>, "Else">>,
   <<<<"f", "a", "l", "s", "e">>, "False">>,
   <<<<"f", "o", "r">>, "For">>,
   <<<<"f", "u", "n">>, "Fun">>,
   <<<<"i", "f">>, "If">>,
   <<<<"n", "i", "l">>, "Nil">>,
   <<<<"o", "r">>, "Or">>,
   <<<<"p", "r", "i", "n", "t">>, "Print">>,
   <<<<"r", "e", "t", "u", "r", "n">>, "Return">>,
   <<<<"s", "u", "p", "e", "r">>, "Super">>,
   <<<<"t", "h", "i", "s">>, "This">>,
   <<<<"t", "r", "u", "e">>, "True">>,
   <<<<"v", "a", "r">>, "Var">>,
   <<<<"w", "h", "i", "l", "e">>, "While">>}

\* HashMap::get(text).copied()
reserved_get(text) ==
  IF \E e \in reserved : e[1] = text
  THEN (CHOOSE e \in reserved : e[1] = text)[2]
  ELSE "Identifier"

-----------------------------------------------------------------------------
(* Scanner.  The struct, with the process's stderr and the panic flag      *)
(* threaded through the methods that write them.                           *)

new_scanner(src, stderr) ==
  [source_len |-> byte_len(src), chars |-> src, text_buffer |-> <<>>,
   start |-> 0, current |-> 0, line |-> 1, stderr |-> stderr, panic |-> FALSE]

\* crate::error -> report -> eprintln!
Report(line, at, text, msg) ==
  [line |-> line, at |-> at, text |-> text, msg |-> msg]

\* crate::error -> report -> eprintln!; text is what the message formats in
error(s, line, msg, text) ==
  [s EXCEPT !.stderr = Append(@, Report(line, "", text, msg))]

Panicked(s) == [s EXCEPT !.panic = TRUE]

is_at_end(s) == s.current >= s.source_len

\* self.chars[i] is in range
InRange(s, i) == i < Len(s.chars)

add_token_base(s, t) == Token(t, s.text_buffer, s.line, FALSE, Zero, <<>>)

add_token_string_literal(s, t, literal) ==
  [add_token_base(s, t) EXCEPT !.string_literal = literal]

add_token_float_literal(s, t, literal) ==
  [add_token_base(s, t) EXCEPT !.float_literal = literal]

add_token_bool_literal(s, t, literal) ==
  [add_token_base(s, t) EXCEPT !.bool_literal = literal]

add_token(s, t) ==
  IF t = "False" THEN Some(add_token_bool_literal(s, t, FALSE))
  ELSE IF t = "True" THEN Some(add_token_bool_literal(s, t, TRUE))
  ELSE Some(add_token_base(s, t))

advance(s) ==
  IF ~InRange(s, s.current) THEN Panicked(s)
  ELSE [s EXCEPT !.text_buffer = Append(@, s.chars[s.current + 1]),
                 !.current = @ + 1]

\* peek reads self.chars[self.current] unless is_at_end
peek_panics(s) == ~is_at_end(s) /\ ~InRange(s, s.current)

peek(s) == IF is_at_end(s) THEN NUL ELSE s.chars[s.current + 1]

peek_next_panics(s) ==
  ~(s.current + 1 >= s.source_len) /\ ~InRange(s, s.current + 1)

peek_next(s) ==
  IF s.current + 1 >= s.source_len THEN NUL ELSE s.chars[s.current + 2]

\* the pair (self afterwards, the bool returned)
tok_match(s, expected) ==
  IF is_at_end(s) THEN [s |-> s, m |-> FALSE]
  ELSE IF ~InRange(s, s.current) THEN [s |-> Panicked(s), m |-> FALSE]
  ELSE IF s.chars[s.current + 1] # expected THEN [s |-> s, m |-> FALSE]
  ELSE [s |-> [s EXCEPT !.text_buffer = Append(@, expected),
                        !.current = @ + 1],
        m |-> TRUE]

\* while is_alphanumeric(self.peek()) { self.advance(); }
RECURSIVE identifier_loop(_)
identifier_loop(s) ==
  IF s.panic THEN s
  ELSE IF peek_panics(s) THEN Panicked(s)
  ELSE IF is_alphanumeric(peek(s)) THEN identifier_loop(advance(s))
  ELSE s

\* parse_identifier after its loop
identifier_token(s) ==
  [s |-> s, t |-> IF s.panic THEN None
                  ELSE add_token(s, reserved_get(s.text_buffer))]

parse_identifier(s0) == identifier_token(identifier_loop(s0))

\* while self.peek().is_ascii_digit() { self.advance(); }
RECURSIVE digits_loop(_)
digits_loop(s) ==
  IF s.panic THEN s
  ELSE IF peek_panics(s) THEN Panicked(s)
  ELSE IF is_ascii_digit(peek(s)) THEN digits_loop(advance(s))
  ELSE s

\* the fraction taken without a look at what follows the "."
number_fraction_any(s1) ==
  IF s1.panic THEN s1
  ELSE IF peek_panics(s1) THEN Panicked(s1)
  ELSE IF peek(s1) # "." THEN s1
  ELSE digits_loop(advance(s1))

\* parse_number after its first loop: the fraction, when one follows
number_fraction(s1) ==
  IF s1.panic THEN s1
  ELSE IF peek_panics(s1) THEN Panicked(s1)
  ELSE IF peek(s1) # "." THEN s1
  ELSE IF peek_next_panics(s1) THEN Panicked(s1)
  ELSE IF is_ascii_digit(peek_next(s1)) THEN digits_loop(advance(s1))
  ELSE s1

\* parse_number after its loops: text_buffer is parsed and the token built
number_token(s2) ==
  [s |-> s2,
   t |-> IF s2.panic THEN None
         ELSE Some(add_token_float_literal(s2, "Number",
                                           parse_f64(s2.text_buffer)))]

parse_number(s0) == number_token(number_fraction(digits_loop(s0)))

\* the loop of parse_string without its count of the line ends
RECURSIVE string_loop_uncounted(_)
string_loop_uncounted(s) ==
  IF s.panic THEN s
  ELSE IF peek_panics(s) THEN Panicked(s)
  ELSE IF peek(s) # DQ /\ ~is_at_end(s) THEN string_loop_uncounted(advance(s))
  ELSE s

\* while self.peek() != '"' && !self.is_at_end() { ... }
RECURSIVE string_loop(_)
string_loop(s) ==
  IF s.panic THEN s
  ELSE IF peek_panics(s) THEN Panicked(s)
  ELSE IF peek(s) # DQ /\ ~is_at_end(s)
       THEN string_loop(advance(IF peek(s) = NL
                                THEN [s EXCEPT !.line = @ + 1] ELSE s))
  ELSE s

\* parse_string after its loop: the report, then advance "for the closing quote"
string_close(s1) ==
  IF s1.panic THEN s1
  ELSE IF is_at_end(s1)
       THEN advance(error(s1, s1.line, "Unterminated string.", <<>>))
  ELSE advance(s1)

\* parse_string from &self.chars[self.start + 1..self.current - 1] on
string_token(s3) ==
  IF s3.panic THEN [s |-> s3, t |-> None]
  ELSE IF s3.start + 1 > s3.current - 1 \/ s3.current - 1 > Len(s3.chars)
       THEN [s |-> Panicked(s3), t |-> None]
  ELSE [s |-> s3,
        t |-> Some(add_token_string_literal(s3, "String",
                     SubSeq(s3.chars, s3.start + 2, s3.current - 1)))]

parse_string(s0) == string_token(string_close(string_loop(s0)))

\* while self.peek() != '\n' && !self.is_at_end() { self.advance(); }
RECURSIVE comment_loop(_)
comment_loop(s) ==
  IF s.panic THEN s
  ELSE IF peek_panics(s) THEN Panicked(s)
  ELSE IF peek(s) # NL /\ ~is_at_end(s) THEN comment_loop(advance(s))
  ELSE s

\* an arm "if self.tok_match('=') { two } else { one }", mt the tok_match
one_or_two(mt, two, one) ==
  [s |-> mt.s,
   t |-> IF mt.s.panic THEN None
         ELSE IF mt.m THEN add_token(mt.s, two) ELSE add_token(mt.s, one)]

\* the arm of '/', mt the tok_match('/')
slash_or_comment(mt) ==
  IF mt.s.panic THEN [s |-> mt.s, t |-> None]
  ELSE IF mt.m THEN [s |-> comment_loop(mt.s), t |-> None]
  ELSE [s |-> mt.s, t |-> add_token(mt.s, "Slash")]

\* the match on the character just consumed
scan_char(s, c) ==
  CASE c = "(" -> [s |-> s, t |-> add_token(s, "LeftParen")]
    [] c = ")" -> [s |-> s, t |-> add_token(s, "RightParen")]
    [] c = "{" -> [s |-> s, t |-> add_token(s, "LeftBrace")]
    [] c = "}" -> [s |-> s, t |-> add_token(s, "RightBrace")]
    [] c = "," -> [s |-> s, t |-> add_token(s, "Comma")]
    [] c = "." -> [s |-> s, t |-> add_token(s, "Dot")]
    [] c = "-" -> [s |-> s, t |-> add_token(s, "Minus")]
    [] c = "+" -> [s |-> s, t |-> add_token(s, "Plus")]
    [] c = ";" -> [s |-> s, t |-> add_token(s, "Semicolon")]
    [] c = "*" -> [s |-> s, t |-> add_token(s, "Star")]
    [] c \in {SP, CR, TAB} -> [s |-> s, t |-> None]
    [] c = NL -> [s |-> [s EXCEPT !.line = @ + 1], t |-> None]
    [] c = "!" -> one_or_two(tok_match(s, "="), "BangEqual", "Bang")
    [] c = "=" -> one_or_two(tok_match(s, "="), "EqualEqual", "Equal")
    [] c = "<" -> one_or_two(tok_match(s, "="), "GreaterEqual", "Greater")
    [] c = ">" -> one_or_two(tok_match(s, "="), "LessEqual", "Less")
    [] c = "/" -> slash_or_comment(tok_match(s, "/"))
    [] c = DQ -> parse_string(s)
    [] OTHER ->
         IF is_ascii_digit(c) THEN parse_number(s)
         ELSE IF is_alpha(c) THEN parse_identifier(s)
         ELSE [s |-> error(s, s.line, "Unexpected character: ", <<c>>),
               t |-> None]

\* the end of an iteration: the token, if any, is pushed and text_buffer reset
push_token(st, toks) ==
  IF st.s.panic THEN [s |-> st.s, toks |-> toks]
  ELSE [s |-> [st.s EXCEPT !.text_buffer = <<>>],
        toks |-> IF st.t.some THEN Append(toks, st.t.v) ELSE toks]

\* the match of an iteration, s1 the scanner after "let c = self.advance()"
scan_advanced(s1) ==
  IF s1.panic THEN [s |-> s1, t |-> None]
  ELSE scan_char(s1, s1.chars[s1.current])

\* one iteration of the while loop of scan_tokens: the scanner and the
\* local new_tokens afterwards
scan_token(s0, toks) ==
  push_token(scan_advanced(advance([s0 EXCEPT !.start = s0.current])), toks)

\* new_tokens.push(self.add_token_base(TokenType::EOF)); return new_tokens
scan_eof(s, toks) == Append(toks, add_token_base(s, "EOF"))

\* scan_tokens as a whole: the loop run to its end
RECURSIVE scan_loop(_)
scan_loop(n) ==
  IF n.s.panic THEN n
  ELSE IF is_at_end(n.s) THEN [s |-> n.s, toks |-> scan_eof(n.s, n.toks)]
  ELSE scan_loop(scan_token(n.s, n.toks))

scan_tokens(s) == scan_loop([s |-> s, toks |-> <<>>])

-----------------------------------------------------------------------------
(* Parser *)

Binary(left, operator, right) ==
  [node |-> "Binary", left |-> left, operator |-> operator, right |-> right]

Unary(operator, right) ==
  [node |-> "Unary", operator |-> operator, right |-> right]

Literal(lit) == [node |-> "Literal", lit |-> lit]

Grouping(group) == [node |-> "Grouping", group |-> group]

\* placeholders of the Result variants that carry no tree / no error
NoExpr == [node |-> "-"]

NoError == [line |-> 0, msg |-> [at |-> "-", lexeme |-> <<>>, m |-> "-"]]

ParseError(line, msg) == [line |-> line, msg |-> msg]

Parser_new(toks) == [tokens |-> toks, had_error |-> FALSE]

\* Result<Expression, ParseError> with the parser afterwards; "Panic" is the
\* process aborting inside the call
POk(p, expr) == [p |-> p, ok |-> "Ok", expr |-> expr, err |-> NoError]

PErr(p, err) == [p |-> p, ok |-> "Err", expr |-> NoExpr, err |-> err]

PPanic(p) == [p |-> p, ok |-> "Panic", expr |-> NoExpr, err |-> NoError]

Parser_is_at_end(p) ==
  IF p.tokens # <<>> THEN Head(p.tokens).tok_type = "EOF" ELSE FALSE

check(p, tt) ==
  IF Parser_is_at_end(p) THEN FALSE
  ELSE IF p.tokens # <<>> THEN Head(p.tokens).tok_type = tt
  ELSE FALSE

\* advance popping whatever token is at the front
Parser_advance_any(p) ==
  IF p.tokens = <<>> THEN [p |-> p, t |-> None, panic |-> TRUE]
  ELSE [p |-> [p EXCEPT !.tokens = Tail(@)],
        t |-> Some(Head(p.tokens)), panic |-> FALSE]

\* (self afterwards, the Option<Token> returned); &self.tokens[0] panics on
\* an empty queue
Parser_advance(p) ==
  IF p.tokens = <<>> THEN [p |-> p, t |-> None, panic |-> TRUE]
  ELSE IF Head(p.tokens).tok_type # "EOF"
       THEN [p |-> [p EXCEPT !.tokens = Tail(@)],
             t |-> Some(Head(p.tokens)), panic |-> FALSE]
  ELSE [p |-> p, t |-> None, panic |-> FALSE]

\* tok_match returning the number it matched and leaving it in the queue
tok_matched_left(p, m, a) ==
  IF m
  THEN [p |-> IF a.t.some /\ a.t.v.tok_type = "Number" THEN p ELSE a.p,
        m |-> m, t |-> a.t, panic |-> a.panic]
  ELSE [p |-> p, m |-> m, t |-> None, panic |-> FALSE]

\* tok_match after its loop over the candidates, a the advance it returns
tok_matched(p, m, a) ==
  IF m THEN [p |-> a.p, m |-> m, t |-> a.t, panic |-> a.panic]
  ELSE [p |-> p, m |-> m, t |-> None, panic |-> FALSE]

Parser_tok_match(p, candidates) ==
  tok_matched(p, \E i \in 1..Len(candidates) : check(p, candidates[i]),
              Parser_advance(p))

\* the ParseError for token t and, with it, self afterwards
Parser_error(p, t, m) ==
  PErr([p EXCEPT !.had_error = TRUE],
       ParseError(t.line,
         IF t.tok_type = "EOF"
         THEN [at |-> "at end ", lexeme |-> <<>>, m |-> m]
         ELSE [at |-> "at '", lexeme |-> t.lexeme, m |-> m]))

SynchronizeStop ==
  {"Class", "Fun", "Var", "For", "If", "While", "Print", "Return"}

RECURSIVE synchronize(_)

\* an iteration of synchronize after "let previous = self.advance()"
synchronize_advanced(a) ==
  IF a.panic THEN [p |-> a.p, panic |-> TRUE]
  ELSE IF ~a.t.some THEN [p |-> a.p, panic |-> FALSE]
  ELSE IF a.t.v.tok_type = "Semicolon" THEN [p |-> a.p, panic |-> FALSE]
  ELSE IF a.p.tokens # <<>>
       THEN IF Head(a.p.tokens).tok_type \in SynchronizeStop
            THEN [p |-> a.p, panic |-> FALSE]
            ELSE synchronize(a.p)
  ELSE [p |-> a.p, panic |-> FALSE]

synchronize(p) ==
  IF Parser_is_at_end(p) THEN [p |-> p, panic |-> FALSE]
  ELSE synchronize_advanced(Parser_advance(p))

\* the Ok arm of consume, a the advance it returns (only Ok / Panic is read)
consumed(a) == IF a.panic THEN PPanic(a.p) ELSE POk(a.p, NoExpr)

\* consume letting a missing token pass
consume_lenient(p, tt, msg) ==
  IF check(p, tt) THEN consumed(Parser_advance(p)) ELSE POk(p, NoExpr)

consume(p, tt, msg) ==
  IF check(p, tt) THEN consumed(Parser_advance(p))
  ELSE IF p.tokens # <<>> THEN Parser_error(p, Head(p.tokens), msg)
  ELSE PPanic(p)

RECURSIVE expression(_)
RECURSIVE equality(_)
RECURSIVE equality_loop(_, _)
RECURSIVE comparison(_)
RECURSIVE comparison_loop(_, _)
RECURSIVE term(_)
RECURSIVE term_loop(_, _)
RECURSIVE factor(_)
RECURSIVE factor_loop(_, _)
RECURSIVE unary(_)
RECURSIVE primary(_)

\* primary after ")" was asked for: c is the consume
grouping_closed(expr, c) ==
  IF c.ok # "Ok" THEN c ELSE POk(c.p, Grouping(expr))

\* primary after "let expr = self.expression()?"
grouping_inner(inner) ==
  IF inner.ok # "Ok" THEN inner
  ELSE grouping_closed(inner.expr,
                       consume(inner.p, "RightParen",
                               "Expect ')' after expression."))

\* primary after its second tok_match, par
primary_paren(p, par) ==
  IF par.m
  THEN IF par.t.some THEN grouping_inner(expression(par.p)) ELSE PPanic(par.p)
  ELSE IF p.tokens # <<>>
       THEN Parser_error(p, Head(p.tokens), "Expect expression.")
  ELSE PPanic(p)

\* primary after its first tok_match, lit
primary_literal(p, lit) ==
  IF lit.m
  THEN IF lit.t.some THEN POk(lit.p, Literal(lit.t.v)) ELSE PPanic(lit.p)
  ELSE primary_paren(p, Parser_tok_match(p, <<"LeftParen">>))

primary(p) ==
  primary_literal(p, Parser_tok_match(p,
                       <<"False", "True", "Nil", "Number", "String">>))

\* unary after "let right = self.unary()?"
unary_right(operator, right) ==
  IF right.ok # "Ok" THEN right
  ELSE POk(right.p, Unary(operator, right.expr))

\* unary after its tok_match, mt
unary_matched(mt) ==
  IF ~mt.m THEN primary(mt.p)
  ELSE IF mt.t.some THEN unary_right(mt.t.v, unary(mt.p))
  ELSE IF mt.p.tokens # <<>>
       THEN Parser_error(mt.p, Head(mt.p.tokens), "Expected unary.")
  ELSE PPanic(mt.p)

unary(p) == unary_matched(Parser_tok_match(p, <<"Bang", "Minus">>))

\* a binary level after its first operand: the loop is entered with it
enter_factor_loop(first) ==
  IF first.ok # "Ok" THEN first ELSE factor_loop(first.p, first.expr)

\* the fold of an iteration of factor: expr = Binary(expr, operator, right)
factor_fold(expr, operator, right) ==
  IF right.ok # "Ok" THEN right
  ELSE factor_loop(right.p, Binary(expr, operator, right.expr))

\* factor taking a whole term as its right operand
factor_matched_term(expr, mt) ==
  IF mt.panic THEN PPanic(mt.p)
  ELSE IF ~mt.m \/ ~mt.t.some THEN POk(mt.p, expr)
  ELSE factor_fold(expr, mt.t.v, term(mt.p))

\* an iteration of the loop of factor after its tok_match, mt
factor_matched(expr, mt) ==
  IF mt.panic THEN PPanic(mt.p)
  ELSE IF ~mt.m \/ ~mt.t.some THEN POk(mt.p, expr)
  ELSE factor_fold(expr, mt.t.v, unary(mt.p))

factor_loop(p, expr) ==
  factor_matched(expr, Parser_tok_match(p, <<"Slash", "Star">>))

factor(p) == enter_factor_loop(unary(p))

enter_term_loop(first) ==
  IF first.ok # "Ok" THEN first ELSE term_loop(first.p, first.expr)

term_fold(expr, operator, right) ==
  IF right.ok # "Ok" THEN right
  ELSE term_loop(right.p, Binary(expr, operator, right.expr))

\* an iteration of the loop of term: the right operand is self.term()
term_matched(expr, mt) ==
  IF mt.panic THEN PPanic(mt.p)
  ELSE IF ~mt.m \/ ~mt.t.some THEN POk(mt.p, expr)
  ELSE term_fold(expr, mt.t.v, term(mt.p))

term_loop(p, expr) ==
  term_matched(expr, Parser_tok_match(p, <<"Minus", "Plus">>))

term(p) == enter_term_loop(factor(p))

enter_comparison_loop(first) ==
  IF first.ok # "Ok" THEN first ELSE comparison_loop(first.p, first.expr)

comparison_fold(expr, operator, right) ==
  IF right.ok # "Ok" THEN right
  ELSE comparison_loop(right.p, Binary(expr, operator, right.expr))

comparison_matched(expr, mt) ==
  IF mt.panic THEN PPanic(mt.p)
  ELSE IF ~mt.m \/ ~mt.t.some THEN POk(mt.p, expr)
  ELSE comparison_fold(expr, mt.t.v, term(mt.p))

comparison_loop(p, expr) ==
  comparison_matched(expr,
    Parser_tok_match(p, <<"Greater", "GreaterEqual", "Less", "LessEqual">>))

comparison(p) == enter_comparison_loop(term(p))

enter_equality_loop(first) ==
  IF first.ok # "Ok" THEN first ELSE equality_loop(first.p, first.expr)

equality_fold(expr, operator, right) ==
  IF right.ok # "Ok" THEN right
  ELSE equality_loop(right.p, Binary(expr, operator, right.expr))

equality_matched(expr, mt) ==
  IF mt.panic THEN PPanic(mt.p)
  ELSE IF ~mt.m \/ ~mt.t.some THEN POk(mt.p, expr)
  ELSE equality_fold(expr, mt.t.v, comparison(mt.p))

equality_loop(p, expr) ==
  equality_matched(expr, Parser_tok_match(p, <<"BangEqual", "EqualEqual">>))

equality(p) == enter_equality_loop(comparison(p))

expression(p) == equality(p)

\* parse testing for an empty queue instead of a queue holding EOF alone
parse_empty_queue(p) ==
  IF p.tokens = <<>> THEN [POk(p, NoExpr) EXCEPT !.ok = "None"]
  ELSE expression(p)

\* Result<Option<Expression>, ParseError>: ok is "None", "Ok" (Some),
\* "Err" or "Panic"; the eprintln! of the Err arm is the caller's diag
parse(p) ==
  IF Len(p.tokens) = 1 /\ p.tokens[1].tok_type = "EOF"
  THEN [POk(p, NoExpr) EXCEPT !.ok = "None"]
  ELSE expression(p)

-----------------------------------------------------------------------------
(* Interpreter *)

\* LiteralType: the variant t and, of the three payloads, the variant's own
Float(lit) == [t |-> "Float", b |-> FALSE, f |-> lit, s |-> <<>>]

Bool(lit) == [t |-> "Bool", b |-> lit, f |-> Zero, s |-> <<>>]

String(lit) == [t |-> "String", b |-> FALSE, f |-> Zero, s |-> lit]

Nil == [t |-> "Nil", b |-> FALSE, f |-> Zero, s |-> <<>>]

\* Result<LiteralType, InterpreterError>; "Panic" is panic! / todo!
EOk(v) == [ok |-> "Ok", v |-> v, tok |-> NoToken, msg |-> "-"]

InterpreterError(tok, msg) == [ok |-> "Err", v |-> Nil, tok |-> tok, msg |-> msg]

EPanic == [ok |-> "Panic", v |-> Nil, tok |-> NoToken, msg |-> "-"]

is_truthy(lit) ==
  CASE lit.t = "Nil" -> FALSE
    [] lit.t = "Bool" -> lit.b
    [] lit.t = "Float" -> TRUE
    [] lit.t = "String" -> TRUE

is_equal(a, b) ==
  CASE a.t = "Nil" -> b.t = "Nil"
    [] a.t = "Bool" -> IF b.t = "Bool" THEN a.b = b.b ELSE FALSE
    [] a.t = "Float" -> IF b.t = "Float" THEN f64_eq(a.f, b.f) ELSE FALSE
    [] a.t = "String" -> IF b.t = "String" THEN a.s = b.s ELSE FALSE

\* check_number_operands looking at the left operand alone
check_left_operand(left, right, operator) ==
  IF left.t = "Float" THEN EOk(Bool(TRUE))
  ELSE InterpreterError(operator, "Operands must be numbers.")

\* Ok(true) is EOk of a value nobody reads
check_number_operands(left, right, operator) ==
  LET rv == left.t = "Float" /\ right.t = "Float"
  IN  IF rv THEN EOk(Bool(rv))
      ELSE InterpreterError(operator, "Operands must be numbers.")

\* check_same_literal_type accepting two numbers only
check_both_numbers(left, right, operator) ==
  IF left.t = "Float" /\ right.t = "Float" THEN EOk(Bool(TRUE))
  ELSE InterpreterError(operator,
                        "Operands must be two numbers or two strings.")

check_same_literal_type(left, right, operator) ==
  LET rv == CASE left.t = "Float" -> right.t = "Float"
              [] left.t = "String" -> right.t = "String"
              [] OTHER -> FALSE
  IN  IF rv THEN EOk(Bool(rv))
      ELSE InterpreterError(operator,
                            "Operands must be two numbers or two strings.")

NumberOperators ==
  {"Greater", "GreaterEqual", "Less", "LessEqual", "Slash", "Minus", "Star"}

\* the match of evaluate_binary on the two operand values
apply_binary(left_lit, right_lit, operator) ==
  LET tt == operator.tok_type
      l == left_lit.f
      rr == right_lit.f
  IN  IF left_lit.t = "Float"
      THEN IF right_lit.t = "Float"
           THEN CASE tt = "Plus" -> EOk(Float(f64_add(l, rr)))
                  [] tt = "Minus" -> EOk(Float(f64_sub(l, rr)))
                  [] tt = "Slash" -> EOk(Float(f64_div(l, rr)))
                  [] tt = "Star" -> EOk(Float(f64_mul(l, rr)))
                  [] tt = "Greater" -> EOk(Bool(f64_gt(l, rr)))
                  [] tt = "GreaterEqual" -> EOk(Bool(f64_ge(l, rr)))
                  [] tt = "Less" -> EOk(Bool(f64_lt(l, rr)))
                  [] tt = "LessEqual" -> EOk(Bool(f64_le(l, rr)))
                  [] tt = "BangEqual" -> EOk(Bool(~is_equal(left_lit, right_lit)))
                  [] tt = "EqualEqual" -> EOk(Bool(is_equal(left_lit, right_lit)))
                  [] OTHER -> EPanic
           ELSE EPanic
      ELSE IF left_lit.t = "String"
      THEN IF right_lit.t = "String"
           THEN CASE tt = "Plus" -> EOk(String(left_lit.s \o right_lit.s))
                  [] tt = "BangEqual" -> EOk(Bool(~(left_lit.s = right_lit.s)))
                  [] tt = "EqualEqual" -> EOk(Bool(left_lit.s = right_lit.s))
                  [] OTHER -> EPanic
           ELSE EPanic
      ELSE EPanic

RECURSIVE evaluate(_)

\* evaluate_binary looking at its right operand first
evaluate_binary_right_first(left, right, operator) ==
  LET left_lit == evaluate(left)
      right_lit == evaluate(right)
      num == check_number_operands(left_lit.v, right_lit.v, operator)
      same == check_same_literal_type(left_lit.v, right_lit.v, operator)
  IN  IF right_lit.ok # "Ok" THEN right_lit
      ELSE IF left_lit.ok # "Ok" THEN left_lit
      ELSE IF operator.tok_type \in NumberOperators /\ num.ok # "Ok" THEN num
      ELSE IF operator.tok_type = "Plus" /\ same.ok # "Ok" THEN same
      ELSE apply_binary(left_lit.v, right_lit.v, operator)

evaluate_binary(left, right, operator) ==
  LET left_lit == evaluate(left)
      right_lit == evaluate(right)
      num == check_number_operands(left_lit.v, right_lit.v, operator)
      same == check_same_literal_type(left_lit.v, right_lit.v, operator)
  IN  IF left_lit.ok # "Ok" THEN left_lit
      ELSE IF right_lit.ok # "Ok" THEN right_lit
      ELSE IF operator.tok_type \in NumberOperators /\ num.ok # "Ok" THEN num
      ELSE IF operator.tok_type = "Plus" /\ same.ok # "Ok" THEN same
      ELSE apply_binary(left_lit.v, right_lit.v, operator)

\* evaluate_unary whose - returns its operand unchanged
evaluate_unary_identity(operator, right_expr) ==
  LET right == evaluate(right_expr)
  IN  IF right.ok # "Ok" THEN right
      ELSE CASE operator.tok_type = "Bang" -> EOk(Bool(~is_truthy(right.v)))
             [] operator.tok_type = "Minus" ->
                  IF right.v.t = "Float" THEN EOk(Float(right.v.f))
                  ELSE InterpreterError(operator, "Operand must be a number.")
             [] OTHER ->
                  InterpreterError(operator,
                    "interpreter - Got TokenType other than Minus or Bang for unary")

evaluate_unary(operator, right_expr) ==
  LET right == evaluate(right_expr)
  IN  IF right.ok # "Ok" THEN right
      ELSE CASE operator.tok_type = "Bang" -> EOk(Bool(~is_truthy(right.v)))
             [] operator.tok_type = "Minus" ->
                  IF right.v.t = "Float"
                  THEN EOk(Float(f64_mul(right.v.f, Fin(TRUE, 1, 1))))
                  ELSE InterpreterError(operator, "Operand must be a number.")
             [] OTHER ->
                  InterpreterError(operator,
                    "interpreter - Got TokenType other than Minus or Bang for unary")

\* the Literal arm of evaluate
evaluate_literal(lit) ==
  IF lit.tok_type \in {"False", "True"} THEN EOk(Bool(lit.bool_literal))
  ELSE IF lit.tok_type = "String" THEN EOk(String(lit.string_literal))
  ELSE IF lit.tok_type = "Number" THEN EOk(Float(lit.float_literal))
  ELSE EPanic

evaluate(expr) ==
  CASE expr.node = "Binary" ->
         evaluate_binary(expr.left, expr.right, expr.operator)
    [] expr.node = "Unary" -> evaluate_unary(expr.operator, expr.right)
    [] expr.node = "Grouping" -> evaluate(expr.group)
    [] expr.node = "Literal" -> evaluate_literal(expr.lit)

-----------------------------------------------------------------------------
(* run (lib.rs): scan, parse, evaluate, print *)

\* format!("{}", lit) of a finite f64 whose decimal expansion ends: the
\* sign, the integer part and, when there is one, "." and the fraction
DigitChar(i) ==
  CASE i = 0 -> "0" [] i = 1 -> "1" [] i = 2 -> "2" [] i = 3 -> "3"
    [] i = 4 -> "4" [] i = 5 -> "5" [] i = 6 -> "6" [] i = 7 -> "7"
    [] i = 8 -> "8" [] i = 9 -> "9"

RECURSIVE fmt_integer(_)
fmt_integer(i) ==
  IF i < 10 THEN <<DigitChar(i)>>
  ELSE Append(fmt_integer(i \div 10), DigitChar(i % 10))

RECURSIVE fmt_fraction(_, _)
fmt_fraction(rem, d) ==
  IF rem = 0 THEN <<>>
  ELSE <<DigitChar((10 * rem) \div d)>> \o fmt_fraction((10 * rem) % d, d)

fmt_f64(x) ==
  (IF x.neg THEN <<"-">> ELSE <<>>)
    \o fmt_integer(x.n \div x.d)
    \o (IF x.n % x.d = 0 THEN <<>> ELSE <<".">> \o fmt_fraction(x.n % x.d, x.d))

\* println! of the value, or of the runtime error
PrintValue(l) ==
  [fmt |-> CASE l.t = "Float" -> "{}"
             [] l.t = "String" -> "\"{}\""
             [] l.t = "Bool" -> "{}"
             [] l.t = "Nil" -> "nil",
   v |-> l, msg |-> "-", line |-> 0]

PrintError(e) ==
  [fmt |-> "{}\n[line {}]", v |-> Nil, msg |-> e.msg, line |-> e.tok.line]

\* the state run starts in, for the source text src
InitRun(src) ==
  /\ source = src
  /\ scanner = new_scanner(src, <<>>)
  /\ new_tokens = <<>>
  /\ diag = <<>>
  /\ tokens = <<>>
  /\ r = POk(Parser_new(<<>>), NoExpr)
  /\ result = EOk(Nil)
  /\ out = <<>>
  /\ pc = "scan"
  /\ evaluated = <<>>

\* the state after an iteration of scan_tokens that left n
Scanned(n) ==
  /\ scanner' = n.s
  /\ new_tokens' = n.toks
  /\ diag' = n.s.stderr
  /\ pc' = IF n.s.panic THEN "panic" ELSE "scan"
  /\ UNCHANGED <<source, tokens, r, result, out, evaluated>>

\* one iteration of the loop of scan_tokens
ScanToken ==
  /\ pc = "scan"
  /\ ~is_at_end(scanner)
  /\ Scanned(scan_token(scanner, new_tokens))

\* the loop of scan_tokens ends: EOF is pushed and the tokens are returned
ScanEOF ==
  /\ pc = "scan"
  /\ is_at_end(scanner)
  /\ new_tokens' = scan_eof(scanner, new_tokens)
  /\ tokens' = new_tokens'
  /\ pc' = "parse"
  /\ UNCHANGED <<source, scanner, diag, r, result, out, evaluated>>

\* the state after scan_tokens returned n, or panicked
Returned(n) ==
  /\ scanner' = n.s
  /\ new_tokens' = n.toks
  /\ diag' = n.s.stderr
  /\ tokens' = IF n.s.panic THEN tokens ELSE n.toks
  /\ pc' = IF n.s.panic THEN "panic" ELSE "parse"
  /\ UNCHANGED <<source, r, result, out, evaluated>>

\* scan_tokens from its call to its return
ScanTokens ==
  /\ pc = "scan"
  /\ Returned(scan_tokens(scanner))

\* run going on to evaluate whatever parse returned
Parsed_unmatched(res) ==
  /\ r' = res
  /\ diag' = IF res.ok = "Err"
             THEN Append(diag, Report(res.err.line, res.err.msg.at,
                                      res.err.msg.lexeme, res.err.msg.m))
             ELSE diag
  /\ pc' = IF res.ok = "Panic" THEN "panic" ELSE "evaluate"
  /\ UNCHANGED <<source, scanner, new_tokens, tokens, result, out, evaluated>>

\* the match of run on the result of parse; its Err arm has printed the error
Parsed(res) ==
  /\ r' = res
  /\ diag' = IF res.ok = "Err"
             THEN Append(diag, Report(res.err.line, res.err.msg.at,
                                      res.err.msg.lexeme, res.err.msg.m))
             ELSE diag
  /\ pc' = CASE res.ok = "Ok" -> "evaluate"
             [] res.ok = "Panic" -> "panic"
             [] OTHER -> "done"
  /\ UNCHANGED <<source, scanner, new_tokens, tokens, result, out, evaluated>>

\* Parser::new(tokens).parse()
Parse ==
  /\ pc = "parse"
  /\ Parsed(parse(Parser_new(tokens)))

\* an evaluate that keeps returning the runtime error of the call before it
Evaluated_sticky_error(res) ==
  /\ result' = IF evaluated # <<>> /\ evaluated[Len(evaluated)].res.ok = "Err"
               THEN evaluated[Len(evaluated)].res ELSE res
  /\ out' = CASE result'.ok = "Ok" -> Append(out, PrintValue(result'.v))
              [] result'.ok = "Err" -> Append(out, PrintError(result'))
              [] OTHER -> out
  /\ pc' = IF result'.ok = "Panic" THEN "panic" ELSE "done"
  /\ UNCHANGED <<source, scanner, new_tokens, diag, tokens, r>>
  /\ evaluated' = Append(evaluated, [expr |-> r.expr, res |-> result'])

\* the match of run on the result of evaluate: the println!
Evaluated(res) ==
  /\ result' = res
  /\ out' = CASE res.ok = "Ok" -> Append(out, PrintValue(res.v))
              [] res.ok = "Err" -> Append(out, PrintError(res))
              [] OTHER -> out
  /\ pc' = IF res.ok = "Panic" THEN "panic" ELSE "done"
  /\ UNCHANGED <<source, scanner, new_tokens, diag, tokens, r>>
  /\ evaluated' = Append(evaluated, [expr |-> r.expr, res |-> res])

\* evaluate(r)
Evaluate ==
  /\ pc = "evaluate"
  /\ Evaluated(evaluate(r.expr))

\* run_prompt: run is over, read_line returns the line src and run is called
\* on it; stdout and stderr go on
NextLine(src) ==
  /\ pc = "done"
  /\ source' = src
  /\ scanner' = new_scanner(src, diag)
  /\ new_tokens' = <<>>
  /\ tokens' = <<>>
  /\ r' = POk(Parser_new(<<>>), NoExpr)
  /\ result' = EOk(Nil)
  /\ pc' = "scan"
  /\ UNCHANGED <<diag, out, evaluated>>

-----------------------------------------------------------------------------
(* The methods of Parser called one at a time, in any order, on the parser *)
(* that Parser::new built from scanned tokens; r holds self and the result *)
(* of the last call                                                        *)

\* the state in which Parser::new(tokens) has returned, n the scan of src
ParserBuilt(src, n) ==
  /\ source = src
  /\ scanner = n.s
  /\ new_tokens = n.toks
  /\ diag = n.s.stderr
  /\ tokens = n.toks
  /\ r = POk(Parser_new(n.toks), NoExpr)
  /\ result = EOk(Nil)
  /\ out = <<>>
  /\ pc = "parser"
  /\ evaluated = <<>>

\* a call has returned res, or aborted
Called(res) ==
  /\ r' = res
  /\ pc' = IF res.ok = "Panic" THEN "panic" ELSE "parser"
  /\ UNCHANGED <<source, scanner, new_tokens, diag, tokens, result, out,
                 evaluated>>

\* what advance, tok_match and synchronize leave: self, and whether the call
\* aborted
Left(a) == IF a.panic THEN PPanic(a.p) ELSE POk(a.p, NoExpr)

OpAdvance == pc = "parser" /\ Called(Left(Parser_advance(r.p)))

\* the candidate lists the grammar functions pass to tok_match
Candidates ==
  {<<"False", "True", "Nil", "Number", "String">>, <<"LeftParen">>,
   <<"Bang", "Minus">>, <<"Slash", "Star">>, <<"Minus", "Plus">>,
   <<"Greater", "GreaterEqual", "Less", "LessEqual">>,
   <<"BangEqual", "EqualEqual">>}

OpTokMatch ==
  /\ pc = "parser"
  /\ \E cs \in Candidates : Called(Left(Parser_tok_match(r.p, cs)))

OpConsume ==
  /\ pc = "parser"
  /\ Called(consume(r.p, "RightParen", "Expect ')' after expression."))

OpSynchronize == pc = "parser" /\ Called(Left(synchronize(r.p)))

\* a grammar function, or parse itself
OpGrammar ==
  /\ pc = "parser"
  /\ \/ Called(primary(r.p))
     \/ Called(unary(r.p))
     \/ Called(factor(r.p))
     \/ Called(term(r.p))
     \/ Called(comparison(r.p))
     \/ Called(equality(r.p))
     \/ Called(expression(r.p))
     \/ Called(parse(r.p))

-----------------------------------------------------------------------------
(* Source texts *)

SeqsUpTo(S, n) == UNION {[1..k -> S] : k \in 0..n}

\* the words of ws written one after the other
RECURSIVE Concat(_)
Concat(ws) == IF ws = <<>> THEN <<>> ELSE Head(ws) \o Concat(Tail(ws))

MaxLen == 4

Alphabet == {"1", ".", DQ, "a", NL, SP, "/", "@", EAcute, "<", "="}

\* every source of at most MaxLen characters, scanned one token at a time
Init == \E src \in SeqsUpTo(Alphabet, MaxLen) : InitRun(src)

Next == ScanToken \/ ScanEOF \/ Parse \/ Evaluate

Spec == Init /\ [][Next]_vars

\* run with each of its three calls taken whole
NextRun == ScanTokens \/ Parse \/ Evaluate

MaxWords == 3

Words ==
  {<<"1">>, <<"2">>, <<DQ, "a", DQ>>, <<"n", "i", "l">>, <<"t", "r", "u", "e">>,
   <<"=", "=">>, <<"!", "=">>, <<"<">>, <<"<", "=">>, <<">">>, <<">", "=">>,
   <<"+">>, <<"-">>, <<"*">>, <<"/">>, <<"!">>, <<"(">>, <<")">>, <<NL>>}

\* every source of at most MaxWords words: literals of each kind, the
\* operators of each level, parentheses and the line end
InitWords == \E ws \in SeqsUpTo(Words, MaxWords) : InitRun(Concat(ws))

SpecWords == InitWords /\ [][NextRun]_vars

MaxChainWords == 5

ChainWords ==
  {<<"1">>, <<"-">>, <<"+">>, <<"*">>, <<"/">>, <<"<">>, <<">">>,
   <<"=", "=">>, <<"!", "=">>}

\* chains of one number literal and the binary operators of the four levels
InitChain == \E ws \in SeqsUpTo(ChainWords, MaxChainWords) : InitRun(Concat(ws))

SpecChain == InitChain /\ [][NextRun]_vars

MaxPrecWords == 5

PrecWords == {<<"2">>, <<"-">>, <<"*">>, <<"+">>, <<"<">>, <<"=", "=">>}

MaxGroupWords == 7

GroupWords == {<<"2">>, <<"+">>, <<"*">>, <<"(">>, <<")">>}

\* unparenthesized sources over one operator of each level, and parenthesized
\* sources over + and *
InitPrec ==
  \E ws \in SeqsUpTo(PrecWords, MaxPrecWords)
              \cup SeqsUpTo(GroupWords, MaxGroupWords) : InitRun(Concat(ws))

SpecPrec == InitPrec /\ [][NextRun]_vars

MaxOperandWords == 3

OperandWords ==
  {<<"0">>, <<"1">>, <<DQ, DQ>>, <<DQ, "a", DQ>>, <<DQ, "b", DQ>>,
   <<"n", "i", "l">>, <<"t", "r", "u", "e">>, <<"f", "a", "l", "s", "e">>,
   <<"=", "=">>, <<"!", "=">>, <<"<">>, <<"<", "=">>, <<">">>, <<">", "=">>,
   <<"+">>, <<"-">>, <<"*">>, <<"/">>, <<"!">>}

\* one operator applied to literals of every kind
InitOperands ==
  \E ws \in SeqsUpTo(OperandWords, MaxOperandWords) : InitRun(Concat(ws))

SpecOperands == InitOperands /\ [][NextRun]_vars

MaxFailWords == 6

FailWords ==
  {<<"1">>, <<"t", "r", "u", "e">>, <<"n", "i", "l">>, <<"-">>, <<"*">>,
   <<"=", "=">>}

\* operands that evaluate, that fail with a runtime error and that abort, on
\* either side of a binary operator
InitFail == \E ws \in SeqsUpTo(FailWords, MaxFailWords) : InitRun(Concat(ws))

SpecFail == InitFail /\ [][NextRun]_vars

MaxNumberLen == 5

NumberAlphabet == {"1", "2", "3", ".", EAcute}

\* digits and points written without a gap, scanned one token at a time
InitNumber == \E src \in SeqsUpTo(NumberAlphabet, MaxNumberLen) : InitRun(src)

SpecNumber == InitNumber /\ [][Next]_vars

RECURSIVE TenTo(_)
TenTo(k) == IF k = 0 THEN 1 ELSE 10 * TenTo(k - 1)

MaxMantissa == 25

MaxScale == 2

\* the numbers m / 10^k and their negatives, -0 among them
RoundTripNumbers ==
  {Fin(neg, m, TenTo(k)) :
     neg \in BOOLEAN, m \in 0..MaxMantissa, k \in 0..MaxScale}

\* the decimal text of a number
InitRoundTrip == \E n \in RoundTripNumbers : InitRun(fmt_f64(n))

SpecRoundTrip == InitRoundTrip /\ [][NextRun]_vars

MaxEvaluations == 3

\* lines typed at the prompt, each a tree for evaluate
PromptLines ==
  {<<"1", NL>>, <<"-", "1", NL>>, <<"1", "+", "1", NL>>, <<"1", "<", "1", NL>>,
   <<"-", "t", "r", "u", "e", NL>>, <<DQ, "a", DQ, "+", DQ, "a", DQ, NL>>,
   <<"!", "1", NL>>}

InitPrompt == \E src \in PromptLines : InitRun(src)

\* the loop of run_prompt, for as long as fewer than MaxEvaluations trees
\* have been evaluated
ReadLine ==
  /\ Len(evaluated) < MaxEvaluations
  /\ \E src \in PromptLines : NextLine(src)

NextPrompt == ScanTokens \/ Parse \/ Evaluate \/ ReadLine

SpecPrompt == InitPrompt /\ [][NextPrompt]_vars

MaxParserWords == 4

ParserWords ==
  {<<"1">>, <<"-">>, <<"(">>, <<")">>, <<";">>, <<"v", "a", "r", SP>>}

\* token sequences ending in EOF, as scan_tokens returns them
InitParser ==
  \E ws \in SeqsUpTo(ParserWords, MaxParserWords) :
    ParserBuilt(Concat(ws), scan_tokens(new_scanner(Concat(ws), <<>>)))

NextParser == OpAdvance \/ OpTokMatch \/ OpConsume \/ OpSynchronize \/ OpGrammar

SpecParser == InitParser /\ [][NextParser]_vars

\* run on the same sources
InitTerminate ==
  \E ws \in SeqsUpTo(ParserWords, MaxParserWords) : InitRun(Concat(ws))

\* run is straight-line code on one thread: the call it is in goes on to its
\* return or to the abort of the process, and run moves to what follows it
Returns ==
  /\ pc \in {"scan", "parse", "evaluate"}
  /\ pc' \in {"parse", "evaluate", "done", "panic"}

\* the steps of NextRun are the only ones that change pc, so the fairness
\* below is weak fairness of NextRun
SpecTerminate == InitTerminate /\ [][NextRun]_vars /\ WF_pc(Returns)

-----------------------------------------------------------------------------
(* Vocabulary of the properties *)

\* scan_tokens has returned
AfterScan == pc # "scan" /\ ~scanner.panic

\* parse has returned
AfterParse == AfterScan /\ pc # "parse"

\* evaluate was called and is over
AfterEvaluate == AfterParse /\ r.ok = "Ok" /\ pc # "evaluate"

TypesOf(toks) == [i \in 1..Len(toks) |-> toks[i].tok_type]

\* the tokens parse took from the queue, and the one it stopped at
Consumed == SubSeq(tokens, 1, Len(tokens) - Len(r.p.tokens))

Offending == tokens[Len(tokens) - Len(r.p.tokens) + 1]

Count(toks, tt) == Cardinality({i \in 1..Len(toks) : toks[i].tok_type = tt})

\* the grammar level of a binary operator, 0 for any other token
Level(tt) ==
  CASE tt \in {"BangEqual", "EqualEqual"} -> 1
    [] tt \in {"Greater", "GreaterEqual", "Less", "LessEqual"} -> 2
    [] tt \in {"Minus", "Plus"} -> 3
    [] tt \in {"Slash", "Star"} -> 4
    [] OTHER -> 0

\* the binding power of the operator at the root of a tree
Power(e) ==
  CASE e.node = "Binary" -> Level(e.operator.tok_type)
    [] e.node = "Unary" -> 5
    [] OTHER -> 6

\* no operator of the tree has, outside parentheses, an operand that binds
\* less tightly than itself
RECURSIVE RespectsPower(_)
RespectsPower(e) ==
  CASE e.node = "Binary" ->
         /\ Power(e.left) >= Power(e) /\ Power(e.right) >= Power(e)
         /\ RespectsPower(e.left) /\ RespectsPower(e.right)
    [] e.node = "Unary" -> Power(e.right) >= 5 /\ RespectsPower(e.right)
    [] e.node = "Grouping" -> RespectsPower(e.group)
    [] OTHER -> TRUE

\* the token kinds of a tree read from left to right, a Grouping node
\* written as its parentheses around its inner tree
RECURSIVE Yield(_)
Yield(e) ==
  CASE e.node = "Binary" ->
         Yield(e.left) \o <<e.operator.tok_type>> \o Yield(e.right)
    [] e.node = "Unary" -> <<e.operator.tok_type>> \o Yield(e.right)
    [] e.node = "Grouping" -> <<"LeftParen">> \o Yield(e.group) \o <<"RightParen">>
    [] e.node = "Literal" -> <<e.lit.tok_type>>

\* c is a Grouping node around a Binary node that binds less tightly than e
LowerInGroup(c, e) ==
  c.node = "Grouping" /\ c.group.node = "Binary" /\ Power(c.group) < Power(e)

\* some Binary node of the tree has, as an operand, a Grouping node around a
\* Binary node of a lower level
RECURSIVE HasGroupedOperand(_)
HasGroupedOperand(e) ==
  CASE e.node = "Binary" ->
         \/ LowerInGroup(e.left, e) \/ LowerInGroup(e.right, e)
         \/ HasGroupedOperand(e.left) \/ HasGroupedOperand(e.right)
    [] e.node = "Unary" -> HasGroupedOperand(e.right)
    [] e.node = "Grouping" -> HasGroupedOperand(e.group)
    [] OTHER -> FALSE

\* a chain  lit op lit op ... lit EOF  whose operators are all of one level
IsChain(toks) ==
  /\ Len(toks) >= 6 /\ Len(toks) % 2 = 0
  /\ toks[Len(toks)].tok_type = "EOF"
  /\ \A i \in 1..(Len(toks) - 1) :
       IF i % 2 = 1 THEN toks[i].tok_type = "Number"
       ELSE Level(toks[i].tok_type) > 0
            /\ Level(toks[i].tok_type) = Level(toks[2].tok_type)

\* the left fold of the first n operands of a chain
RECURSIVE LeftFold(_, _)
LeftFold(toks, n) ==
  IF n = 1 THEN Literal(toks[1])
  ELSE Binary(LeftFold(toks, n - 1), toks[2 * n - 2], Literal(toks[2 * n - 1]))

WhiteSpace == {SP, CR, TAB, NL}

TokenStart ==
  {"(", ")", "{", "}", ",", ".", "-", "+", ";", "*", "!", "=", "<", ">", "/", DQ}
    \cup Digits \cup Letters \cup {"_"}

\* what is left of s after the first line end, if any
RECURSIVE AfterLine(_)
AfterLine(s) ==
  IF s = <<>> THEN <<>>
  ELSE IF Head(s) = NL THEN Tail(s) ELSE AfterLine(Tail(s))

\* a source made only of whitespace, comments and characters no token
\* starts with
RECURSIVE OnlyBlank(_)
OnlyBlank(s) ==
  IF s = <<>> THEN TRUE
  ELSE IF Head(s) \in WhiteSpace \/ Head(s) \notin TokenStart
       THEN OnlyBlank(Tail(s))
  ELSE IF Len(s) >= 2 /\ s[1] = "/" /\ s[2] = "/" THEN OnlyBlank(AfterLine(s))
  ELSE FALSE

-----------------------------------------------------------------------------
(* Properties *)

\* C1: once scan has returned, parse and evaluate end in no tree, a value, a
\* ParseError or a RuntimeError; neither of them reaches panic! or todo!.
C1_NoFatalState ==
  /\ AfterScan => pc # "panic"
  /\ AfterParse => r.ok \in {"None", "Ok", "Err"}
  /\ AfterEvaluate => result.ok \in {"Ok", "Err"}

\* C2: scan_tokens never fails, and the tokens it returns hold exactly one EOF
\* token, the last one, with an empty lexeme and the scanner's final line.
C2_ScanTotal ==
  /\ ~scanner.panic
  /\ pc # "scan" =>
       /\ tokens # <<>>
       /\ \A i \in 1..Len(tokens) : tokens[i].tok_type = "EOF" <=> i = Len(tokens)
       /\ tokens[Len(tokens)].lexeme = <<>>
       /\ tokens[Len(tokens)].line = scanner.line

\* the source ends inside a string literal: the text after the quote that
\* opens the token the scanner is at holds no other quote
Unterminated ==
  /\ scanner.start < Len(source)
  /\ source[scanner.start + 1] = DQ
  /\ \A i \in (scanner.start + 2)..Len(source) : source[i] # DQ

\* C3: when the input ends inside a string literal the scanner reports
\* "Unterminated string.", does not abort, and returns a String token whose
\* payload is the text after the opening quote, followed by EOF.
C3_UnterminatedString ==
  (\E i \in 1..Len(diag) : diag[i].msg = "Unterminated string.") =>
    /\ ~scanner.panic
    /\ pc # "scan" =>
         /\ Len(tokens) >= 2
         /\ tokens[Len(tokens) - 1].tok_type = "String"
         /\ Unterminated =>
              tokens[Len(tokens) - 1].string_literal
                = SubSeq(source, scanner.start + 2, Len(source))

\* the kind the specification gives the lexeme of a comparison operator
ComparisonKind(lexeme) ==
  CASE lexeme = <<"<">> -> "Less"
    [] lexeme = <<"<", "=">> -> "LessEqual"
    [] lexeme = <<">">> -> "Greater"
    [] lexeme = <<">", "=">> -> "GreaterEqual"

ComparisonLexemes == {<<"<">>, <<"<", "=">>, <<">">>, <<">", "=">>}

\* the comparison the lexeme of an operator stands for
Compare(lexeme, a, b) ==
  CASE lexeme = <<"<">> -> f64_lt(a, b)
    [] lexeme = <<"<", "=">> -> f64_le(a, b)
    [] lexeme = <<">">> -> f64_gt(a, b)
    [] lexeme = <<">", "=">> -> f64_ge(a, b)

\* C4: "<", "<=", ">", ">=" are scanned to Less, LessEqual, Greater,
\* GreaterEqual, and the source  a op b  of two number literals evaluates to
\* the Boolean of that comparison.
C4_ComparisonOperators ==
  /\ \A i \in 1..Len(new_tokens) :
       new_tokens[i].lexeme \in ComparisonLexemes =>
         new_tokens[i].tok_type = ComparisonKind(new_tokens[i].lexeme)
  /\ ( /\ AfterEvaluate
       /\ Len(tokens) = 4
       /\ tokens[1].tok_type = "Number" /\ tokens[3].tok_type = "Number"
       /\ tokens[2].lexeme \in ComparisonLexemes )
     => /\ result.ok = "Ok"
        /\ result.v = Bool(Compare(tokens[2].lexeme, tokens[1].float_literal,
                                   tokens[3].float_literal))

\* C5: a chain of operands joined by operators of one binary level parses to
\* the left fold Binary(Binary(a, op1, b), op2, c), whatever its length.
C5_LeftAssociative ==
  (AfterParse /\ IsChain(tokens)) =>
    /\ r.ok = "Ok"
    /\ r.expr = LeftFold(tokens, Len(tokens) \div 2)

\* C6: in the tree parse returns no operator has, outside parentheses, an
\* operand of a lower level; a parenthesized sub-expression is one Grouping
\* node; so  a + b * c  is a + (b * c) and  (a + b) * c  is (a + b) * c.
C6_BindingPower ==
  /\ (AfterParse /\ r.ok = "Ok") =>
       /\ RespectsPower(r.expr)
       /\ Yield(r.expr) = TypesOf(Consumed)
  /\ ( /\ AfterEvaluate
       /\ TypesOf(tokens) = <<"Number", "Plus", "Number", "Star", "Number", "EOF">> )
     => /\ result.ok = "Ok"
        /\ result.v = Float(f64_add(tokens[1].float_literal,
                                    f64_mul(tokens[3].float_literal,
                                            tokens[5].float_literal)))
  /\ ( /\ AfterEvaluate
       /\ TypesOf(tokens) = <<"LeftParen", "Number", "Plus", "Number",
                              "RightParen", "Star", "Number", "EOF">> )
     => /\ result.ok = "Ok"
        /\ result.v = Float(f64_mul(f64_add(tokens[2].float_literal,
                                            tokens[4].float_literal),
                                    tokens[7].float_literal))

\* C6 witness:  (2 + 2) * 2  was parsed and evaluated to 8, a Grouping node
\* around the lower level + being an operand of *.
C6_Witness ==
  /\ AfterEvaluate
  /\ TypesOf(tokens) = <<"LeftParen", "Number", "Plus", "Number",
                         "RightParen", "Star", "Number", "EOF">>
  /\ HasGroupedOperand(r.expr)
  /\ result.v = Float(Fin(FALSE, 8, 1))

\* C7: parse returns a tree only when nothing but EOF is left in the queue.
C7_WholeInput ==
  (AfterParse /\ r.ok = "Ok") => TypesOf(r.p.tokens) = <<"EOF">>

\* C8: parse returns None exactly for the token sequence <<EOF>>, which is
\* what a returning scan yields exactly for a source of whitespace, comments
\* and rejected characters; otherwise it returns a tree or a ParseError.
C8_NoneIffEmpty ==
  /\ AfterScan => (TypesOf(tokens) = <<"EOF">> <=> OnlyBlank(source))
  /\ AfterParse =>
       /\ r.ok = "None" <=> TypesOf(tokens) = <<"EOF">>
       /\ r.ok \in {"None", "Ok", "Err"}

\* C8 witness: parse returned None for a source that is a comment.
C8_Witness ==
  AfterParse /\ r.ok = "None" /\ Len(source) >= 3 /\ source[1] = "/"

PrimaryStart == {"False", "True", "Nil", "Number", "String", "LeftParen"}

ExpectParen == "Expect ')' after expression."

ExpectExpression == "Expect expression."

\* C9: a ParseError carries the line of the token parse stopped at and says
\* "at end" exactly when that token is EOF; "Expect ')' after expression." is
\* raised at a token other than ")" inside an open "("; "Expect expression."
\* at a token that starts no primary; no tree comes with it and nothing is
\* evaluated.  "(" number followed by neither ")" nor a binary operator is
\* the first error, a first token that starts no expression the second.
C9_ParseErrors ==
  /\ (AfterParse /\ r.ok = "Err") =>
       /\ r.err.line = Offending.line
       /\ r.err.msg.at = "at end " <=> Offending.tok_type = "EOF"
       /\ r.err.msg.m \in {ExpectParen, ExpectExpression}
       /\ r.err.msg.m = ExpectParen =>
            /\ Offending.tok_type # "RightParen"
            /\ Count(Consumed, "LeftParen") > Count(Consumed, "RightParen")
       /\ r.err.msg.m = ExpectExpression =>
            Offending.tok_type \notin PrimaryStart \cup {"Bang", "Minus"}
       /\ r.expr = NoExpr
       /\ pc = "done" /\ out = <<>>
  /\ ( /\ AfterParse /\ Len(tokens) >= 3
       /\ tokens[1].tok_type = "LeftParen" /\ tokens[2].tok_type = "Number"
       /\ tokens[3].tok_type # "RightParen" /\ Level(tokens[3].tok_type) = 0 )
     => /\ r.ok = "Err" /\ r.err.msg.m = ExpectParen
        /\ r.err.line = tokens[3].line
  /\ ( /\ AfterParse /\ Len(tokens) >= 2
       /\ tokens[1].tok_type \notin PrimaryStart \cup {"Bang", "Minus"} )
     => /\ r.ok = "Err" /\ r.err.msg.m = ExpectExpression
        /\ r.err.line = tokens[1].line

\* C9 witness: "(" and a number, then the input ends on line 2.
C9_Witness ==
  /\ AfterParse /\ r.ok = "Err"
  /\ TypesOf(tokens) = <<"LeftParen", "Number", "EOF">>
  /\ r.err.msg.m = ExpectParen /\ r.err.msg.at = "at end " /\ r.err.line = 2

\* the tree is a Binary node with operator == or != whose two operands
\* evaluate to values
IsEqualityOfValues ==
  /\ r.expr.node = "Binary"
  /\ r.expr.operator.tok_type \in {"EqualEqual", "BangEqual"}
  /\ evaluate(r.expr.left).ok = "Ok" /\ evaluate(r.expr.right).ok = "Ok"

\* C10: == and != never fail and return a Boolean; on operands of different
\* variants == is false and != is true.
C10_EqualityNeverFails ==
  (AfterEvaluate /\ IsEqualityOfValues) =>
    /\ result.ok = "Ok"
    /\ result.v.t = "Bool"
    /\ evaluate(r.expr.left).v.t # evaluate(r.expr.right).v.t
         => result.v.b = (r.expr.operator.tok_type = "BangEqual")

\* the value the specification gives a literal token
LiteralValue(lit) ==
  CASE lit.tok_type = "Nil" -> Nil
    [] lit.tok_type \in {"True", "False"} -> Bool(lit.tok_type = "True")
    [] lit.tok_type = "Number" -> Float(lit.float_literal)
    [] lit.tok_type = "String" -> String(lit.string_literal)

\* a and b are of the same variant and hold the same value
SameValue(a, b) ==
  /\ a.t = b.t
  /\ CASE a.t = "Nil" -> TRUE
       [] a.t = "Bool" -> a.b = b.b
       [] a.t = "Float" -> f64_eq(a.f, b.f)
       [] a.t = "String" -> a.s = b.s

\* the Binary node e with its operator replaced by one of kind tt
WithOperator(e, tt) == [e EXCEPT !.operator.tok_type = tt]

\* the tree is a Binary node whose two operands evaluate to values
IsBinaryOfValues ==
  /\ r.expr.node = "Binary"
  /\ evaluate(r.expr.left).ok = "Ok" /\ evaluate(r.expr.right).ok = "Ok"

\* C11: on every pair of operand values == yields Boolean(the two are the
\* same variant with the same value) and != yields its negation.
C11_EqualityRelation ==
  (AfterEvaluate /\ IsEqualityOfValues) =>
    /\ evaluate(WithOperator(r.expr, "EqualEqual"))
         = EOk(Bool(SameValue(evaluate(r.expr.left).v, evaluate(r.expr.right).v)))
    /\ evaluate(WithOperator(r.expr, "BangEqual"))
         = EOk(Bool(~SameValue(evaluate(r.expr.left).v, evaluate(r.expr.right).v)))

\* only Nil and Boolean(false) are falsy
Falsy(v) == v.t = "Nil" \/ (v.t = "Bool" /\ ~v.b)

\* the tree is ! applied to a literal
IsBangOfLiteral ==
  /\ AfterParse /\ r.ok = "Ok"
  /\ r.expr.node = "Unary" /\ r.expr.operator.tok_type = "Bang"
  /\ r.expr.right.node = "Literal"

\* C12: ! applied to a literal of any kind evaluates to Boolean(the literal's
\* value is falsy): !nil is true, !0 and !"" are false.
C12_BangTruthiness ==
  IsBangOfLiteral =>
    /\ pc # "panic"
    /\ pc = "done" => result = EOk(Bool(Falsy(LiteralValue(r.expr.right.lit))))

\* the kinds of the comparison operators
ComparisonOperators == {"Greater", "GreaterEqual", "Less", "LessEqual"}

IsMinusOfValue ==
  /\ r.expr.node = "Unary" /\ r.expr.operator.tok_type = "Minus"
  /\ evaluate(r.expr.right).ok = "Ok"

RECURSIVE FirstFailure(_)
FirstFailure(e) ==
  CASE e.node = "Binary" ->
         IF evaluate(e.left).ok # "Ok" THEN FirstFailure(e.left)
         ELSE IF evaluate(e.right).ok # "Ok" THEN FirstFailure(e.right)
         ELSE evaluate(e)
    [] e.node = "Unary" ->
         IF evaluate(e.right).ok # "Ok" THEN FirstFailure(e.right)
         ELSE evaluate(e)
    [] e.node = "Grouping" -> FirstFailure(e.group)
    [] e.node = "Literal" -> evaluate(e)

\* no node of the tree evaluates to a runtime error
RECURSIVE NoError_in(_)
NoError_in(e) ==
  /\ evaluate(e).ok # "Err"
  /\ CASE e.node = "Binary" -> NoError_in(e.left) /\ NoError_in(e.right)
       [] e.node = "Unary" -> NoError_in(e.right)
       [] e.node = "Grouping" -> NoError_in(e.group)
       [] e.node = "Literal" -> TRUE

\* C16: a Binary node whose left operand fails returns that error without
\* evaluating the right operand; one whose right operand alone fails returns
\* that error without applying its operator; the error returned for a tree
\* is the first met from left to right, depth first, and a tree in which an
\* error occurs returns no value.
C16_FailFast ==
  AfterEvaluate =>
    /\ r.expr.node = "Binary" =>
         /\ evaluate(r.expr.left).ok = "Err" => result = evaluate(r.expr.left)
         /\ evaluate(r.expr.left).ok = "Ok" /\ evaluate(r.expr.right).ok = "Err"
              => result = evaluate(r.expr.right)
    /\ result.ok # "Ok" => result = FirstFailure(r.expr)
    /\ result.ok = "Ok" => NoError_in(r.expr)

\* both operands fail, with different errors, and the left one was returned
C16_Witness ==
  /\ AfterEvaluate /\ r.expr.node = "Binary"
  /\ evaluate(r.expr.left).ok = "Err" /\ evaluate(r.expr.right).ok = "Err"
  /\ evaluate(r.expr.left) # evaluate(r.expr.right)
  /\ result = evaluate(r.expr.left)

\* digits, or digits "." digits
IsNumberLexeme(lex) ==
  \E k \in 1..Len(lex) :
    /\ \A i \in 1..k : lex[i] \in Digits
    /\ \/ k = Len(lex)
       \/ /\ k + 1 < Len(lex) /\ lex[k + 1] = "."
          /\ \A i \in (k + 2)..Len(lex) : lex[i] \in Digits

\* the lexemes of the tokens written one after the other
LexemesOf(toks) == Concat([i \in 1..Len(toks) |-> toks[i].lexeme])

\* the number a lexeme of digits [ "." digits ] denotes: its digits read as
\* an integer, over ten to the number of digits after the point
RECURSIVE DigitsValue(_)
DigitsValue(lex) ==
  IF lex = <<>> THEN 0
  ELSE 10 * DigitsValue(SubSeq(lex, 1, Len(lex) - 1)) + DigitVal(lex[Len(lex)])

NumberValue(lex) ==
  LET digits == SelectSeq(lex, LAMBDA c : c # ".")
      point == CHOOSE k \in 1..(Len(lex) + 1) :
                 k = Len(lex) + 1 \/ lex[k] = "."
  IN  Fin(FALSE, DigitsValue(digits), TenTo(Len(digits) - (point - 1)))

\* C17: a source of digits and points scans to Number and Dot tokens that
\* spell the source; a Number is digits, or digits "." digits, with the
\* value it denotes; it takes every digit that follows it, and the "." and
\* digits that follow it when it has no "." yet.  So "1." is Number(1), Dot
\* and "1.2.3" is Number(1.2), Dot, Number(3).
C17_NumberLiteral ==
  AfterScan =>
    /\ LexemesOf(tokens) = source
    /\ tokens[Len(tokens)].tok_type = "EOF"
    /\ \A i \in 1..(Len(tokens) - 1) :
         /\ tokens[i].tok_type \in {"Number", "Dot"}
         /\ tokens[i].tok_type = "Number" =>
              /\ IsNumberLexeme(tokens[i].lexeme)
              /\ tokens[i].float_literal = NumberValue(tokens[i].lexeme)
              /\ tokens[i + 1].tok_type # "Number"
              /\ ("." \notin {tokens[i].lexeme[j] : j \in 1..Len(tokens[i].lexeme)}
                    /\ tokens[i + 1].tok_type = "Dot")
                   => tokens[i + 2].tok_type # "Number"
    /\ source = <<"1", ".">> => TypesOf(tokens) = <<"Number", "Dot", "EOF">>
    /\ source = <<"1", ".", "2", ".", "3">> =>
         /\ TypesOf(tokens) = <<"Number", "Dot", "Number", "EOF">>
         /\ tokens[1].float_literal = Fin(FALSE, 6, 5)
         /\ tokens[3].float_literal = Fin(FALSE, 3, 1)

\* "1.2.3" has been scanned
C17_Witness ==
  /\ AfterScan /\ source = <<"1", ".", "2", ".", "3">>
  /\ Len(tokens) = 4 /\ tokens[1].lexeme = <<"1", ".", "2">>

\* a step of run: parse follows scan, evaluate follows a parse that returned
\* a tree, and nothing but that evaluate sets result or prints to stdout
StageStep ==
  /\ pc' = "parse" => pc = "scan"
  /\ pc' = "evaluate" => pc = "parse" /\ r'.ok = "Ok"
  /\ (result' # result \/ out' # out) => pc = "evaluate" /\ r.ok = "Ok"

\* run is over without a tree: evaluate was not called, nothing was printed
NothingEvaluated == result = EOk(Nil) /\ out = <<>>

\* C18: run scans, then parses, then evaluates, and evaluates only the tree
\* of a parse that returned Ok(Some(tree)); after a ParseError or None no
\* value and no runtime error is printed.
C18_StageOrder ==
  /\ [][StageStep]_vars
  /\ [](pc = "done" /\ r.ok \in {"Err", "None"} => NothingEvaluated)

\* run is over after a ParseError
C18_Witness == pc = "done" /\ r.ok = "Err" /\ NothingEvaluated

\* C19: the decimal text of a number n scans, parses and evaluates to
\* Number(n): a single Number literal when n is not negative, unary minus
\* applied to it when n is negative.
C19_RoundTrip ==
  \A n \in RoundTripNumbers :
    source = fmt_f64(n) =>
      /\ pc # "panic"
      /\ AfterParse =>
           /\ r.ok = "Ok"
           /\ r.expr.node = IF n.neg THEN "Unary" ELSE "Literal"
      /\ pc = "done" => result = EOk(Float(n))

\* -2.5 came back from its text
C19_Witness ==
  /\ pc = "done" /\ source = <<"-", "2", ".", "5">>
  /\ result = EOk(Float(Fin(TRUE, 5, 2)))

Unexpected(c) == c \notin TokenStart \cup WhiteSpace

\* the number of line ends in s
NLCount(s) == Cardinality({i \in 1..Len(s) : s[i] = NL})

\* the reports the unexpected characters of s call for, in source order
RECURSIVE ExpectedReports(_, _)
ExpectedReports(s, n) ==
  IF n = 0 THEN <<>>
  ELSE IF Unexpected(s[n])
       THEN Append(ExpectedReports(s, n - 1),
                   Report(1 + NLCount(SubSeq(s, 1, n)), "", <<s[n]>>,
                          "Unexpected character: "))
  ELSE ExpectedReports(s, n - 1)

\* s with a space in the place of each unexpected character
Blanked(s) == [i \in 1..Len(s) |-> IF Unexpected(s[i]) THEN SP ELSE s[i]]

\* no string and no comment can hide a character of s
NoQuoteNoSlash(s) == \A i \in 1..Len(s) : s[i] \notin {DQ, "/"}

\* C21: outside strings and comments each character that starts no token is
\* reported with its line, in source order, and gives no token; the scan
\* goes on, and the tokens are those of the source with such characters
\* blanked out.
C21_UnexpectedCharacter ==
  (pc # "scan" /\ NoQuoteNoSlash(source)) =>
    /\ ~scanner.panic
    /\ scanner.stderr = ExpectedReports(source, Len(source))
    /\ tokens = scan_tokens(new_scanner(Blanked(source), <<>>)).toks

\* the scanner has passed as many line ends as its line counter says
LineCounted == scanner.line = 1 + NLCount(SubSeq(source, 1, scanner.current))

\* an iteration of scan_tokens pushed a token
TokenPushed ==
  pc = "scan" /\ pc' = "scan" /\ Len(new_tokens') = Len(new_tokens) + 1

\* the token just pushed spells the source from start to current and carries
\* the line of its end
TokenLine ==
  /\ new_tokens'[Len(new_tokens')].lexeme
       = SubSeq(source, scanner'.start + 1, scanner'.current)
  /\ new_tokens'[Len(new_tokens')].line
       = 1 + NLCount(SubSeq(source, 1, scanner'.current))

\* C22: the line counter starts at 1, never decreases and is always 1 plus
\* the number of line ends consumed, be they whitespace, the end of a comment
\* or inside a string; each token carries the line of the end of its lexeme
\* and EOF carries 1 plus the number of line ends of the source.
C22_LineCounter ==
  /\ (scanner.current = 0 => scanner.line = 1)
  /\ [](LineCounted)
  /\ [][scanner'.line >= scanner.line /\ (TokenPushed => TokenLine)]_vars
  /\ [](AfterScan =>
          /\ tokens[Len(tokens)].tok_type = "EOF"
          /\ tokens[Len(tokens)].line = 1 + NLCount(source))

\* a string holding a line end was scanned: its token carries line 2
C22_Witness ==
  /\ AfterScan
  /\ \E i \in 1..Len(tokens) :
       /\ tokens[i].tok_type = "String" /\ tokens[i].line = 2
       /\ tokens[i].string_literal = <<NL>>

\* C23: the cursors keep 0 <= start <= current <= N, N the number of
\* characters of the source; the loop of scan_tokens is over exactly when
\* current = N; no read of chars is out of range.
C23_Cursors ==
  /\ 0 <= scanner.start /\ scanner.start <= scanner.current
  /\ scanner.current <= Len(source)
  /\ pc = "scan" => (is_at_end(scanner) <=> scanner.current = Len(source))
  /\ ~scanner.panic

\* q is what is left of toks after some of its first elements are removed
IsSuffix(q, toks) ==
  Len(q) <= Len(toks) /\ q = SubSeq(toks, Len(toks) - Len(q) + 1, Len(toks))

\* C24: after any sequence of calls of advance, tok_match, consume,
\* synchronize and the grammar functions the queue is not empty, ends in the
\* EOF token and is a suffix of the tokens the parser was built from; no
\* call reaches a "no tokens remaining" panic.
C24_KeepsEOF ==
  pc \in {"parser", "panic"} =>
    /\ r.ok # "Panic"
    /\ r.p.tokens # <<>>
    /\ r.p.tokens[Len(r.p.tokens)].tok_type = "EOF"
    /\ IsSuffix(r.p.tokens, tokens)

\* every token but EOF was removed, an error was raised on the way, and a
\* later call returned
C24_Witness ==
  /\ pc = "parser" /\ Len(tokens) >= 3
  /\ Len(r.p.tokens) = 1 /\ r.p.had_error /\ r.ok = "Ok"

\* a tok_match that matched removed exactly one token
MatchRemoves(p, mt) == mt.m => Len(mt.p.tokens) = Len(p.tokens) - 1

\* a call left a suffix of the queue it was given, a shorter one if it
\* returned a tree
Shrinks(p, res) ==
  /\ IsSuffix(res.p.tokens, p.tokens)
  /\ res.ok = "Ok" => Len(res.p.tokens) < Len(p.tokens)

\* from the queue of p on, every loop iteration and every re-entry of a
\* grammar function has a token less to work on
Decreases(p) ==
  /\ \A cs \in Candidates : MatchRemoves(p, Parser_tok_match(p, cs))
  /\ Shrinks(p, primary(p)) /\ Shrinks(p, unary(p)) /\ Shrinks(p, factor(p))
  /\ Shrinks(p, term(p)) /\ Shrinks(p, comparison(p))
  /\ Shrinks(p, equality(p)) /\ Shrinks(p, expression(p))

\* C25: each successful tok_match, hence each loop iteration and each
\* re-entry of a grammar function, removes a token, so the queue strictly
\* shrinks; parse, once called, returns a tree, None or a ParseError.
C25_ParseTerminates ==
  /\ [](AfterScan =>
          \A k \in 1..Len(tokens) :
            Decreases(Parser_new(SubSeq(tokens, k, Len(tokens)))))
  /\ (pc = "parse") ~> (pc \in {"evaluate", "done"}
                          /\ r.ok \in {"Ok", "None", "Err"})

\* parse returned the tree of (-1): expression was re-entered after "(",
\* unary after "-", and only EOF is left in the queue
C25_Witness ==
  /\ AfterParse /\ r.ok = "Ok"
  /\ r.expr.node = "Grouping" /\ r.expr.group.node = "Unary"
  /\ r.expr.group.right.node = "Literal"
  /\ r.p.tokens = <<tokens[Len(tokens)]>>

====
